---- MODULE Spec2Model ----
(***************************************************************************)
(* The chat relay of chat-v2: the connection registry actor                *)
(* (ChatServer::run, src/src/chat_server.rs) and the per-connection        *)
(* session loop (websocket_handler, src/src/handler.rs), with the          *)
(* message store (MongoDB collection) as a fallible external collaborator. *)
(*                                                                         *)
(* The registry is one task; it suspends at every .await of a handler      *)
(* (store call, channel send), so each handler is a short sequence of      *)
(* steps between which the sessions run.                                   *)
(***************************************************************************)
EXTENDS Integers, Sequences, FiniteSets, TLC

\* ---------------------------------------------------------------- bounds
\* number of websocket sessions (each runs websocket_handler once)
NSess == 3
\* number of SendMessage commands the sessions submit in total
MaxSends == 2
\* capacity of a session's bounded outbound channel
ChanCap == 1
Sessions == 1..NSess
Users == {"a", "b"}

\* the verified user of a session (ws_connect: user.user_id()); session 1
\* belongs to "a", every other session to "b"
UserOf(s) == IF s = 1 THEN "a" ELSE "b"

\* a session's outbound channel is identified by the session that made it
Chans == Sessions
NoChan == 0
NoId == 0

VARIABLES
    connections,   \* ChatServer.connections: user -> channel (NoChan: no entry)
    cmd_rx,        \* the unbounded command queue, oldest first
    reg,           \* the registry task: position and locals of the handler
    store,         \* the message collection: _id k is store[k]
    msg_q,         \* msg_q[c]: messages buffered in outbound channel c
    rx_closed,     \* rx_closed[c]: the receiver msg_rx of channel c is dropped
    sess,          \* sess[s]: the session task and its chat_to_ws task
    res_rx,        \* res_rx[s]: the one-shot reply of s's pending send
    pushes,        \* history: the channel sends the registry has made
    updates,       \* history: the update_one calls the registry has made
    done,          \* history: the command the registry took last, and whether
                   \* the map had an entry for its user (recipient) then
    since,         \* history: since[u]: the channels of the Connect commands
                   \* taken for u after the last Disconnect taken for u
    sends,         \* number of SendMessage commands submitted so far
    order,         \* history: order[s].submitted: the types of the commands
                   \* session s put on the queue, in that order;
                   \* order[s].taken: those the registry took off it
    sent_q,        \* history: sent_q[c]: the records sent on channel c with
                   \* success, in the order of the sends
    cap,           \* the capacity the outbound channels are made with
    ws,            \* ws[s]: the websocket of s as its tasks see it: open (no
                   \* close sent, peer reachable), age (seconds since
                   \* last_heartbeat), to_tick (seconds to the next tick)
    ev,            \* history: the latest step of a session whose frames are
                   \* modelled: the session, the branch taken, the frames it
                   \* wrote to the peer; n alternates with every such step
    relayed        \* history: relayed[s]: the records chat_to_ws of s wrote
                   \* to the peer, in the order of the writes

\* the state that only the sessions with modelled frames change
fvars == <<cap, ws, ev, relayed>>

vars == <<connections, cmd_rx, reg, store, msg_q, rx_closed, sess, res_rx,
          pushes, updates, done, since, sends, order, sent_q, fvars>>

\* ------------------------------------------------------------- registry
RegIdle == [pc |-> "recv", user_id |-> "a", message_tx |-> NoChan,
            cursor |-> <<>>, mid |-> NoId, res_tx |-> NoChan]

\* the _ids of the collection in the store's own order
StoreOrder == [k \in 1..Len(store) |-> k]

\* a faulty filter: matches on sender_id
UndeliveredBySender(user_id) ==
    SelectSeq(StoreOrder,
              LAMBDA k : store[k].sender_id = user_id /\ store[k].delivered = FALSE)

\* a faulty filter: leaves out the delivered flag
UndeliveredOrNot(user_id) ==
    SelectSeq(StoreOrder, LAMBDA k : store[k].recipient_id = user_id)

\* find(doc!{"recipient_id": user_id, "delivered": false}) (lines 76-82): the
\* _ids that match
Undelivered(user_id) ==
    SelectSeq(StoreOrder,
              LAMBDA k : store[k].recipient_id = user_id /\ store[k].delivered = FALSE)

\* self.connections.contains_key(&recipient_id)
ContainsKey(recipient_id) == connections[recipient_id] # NoChan

\* tx.send(msg).await on a bounded channel: Err when the receiver is gone,
\* otherwise it waits for room
SendErr(c) == rx_closed[c]
SendOk(c) == ~rx_closed[c] /\ Len(msg_q[c]) < cap

\* the websocket of a session as actix_ws::handle gives it: open, and
\* last_heartbeat and the interval both start now (lines 89-92)
WsNew == [open |-> TRUE, age |-> 0, to_tick |-> 0]

Init ==
    /\ connections = [u \in Users |-> NoChan]
    /\ cmd_rx = <<>>
    /\ reg = RegIdle
    /\ store = <<>>
    /\ msg_q = [c \in Chans |-> <<>>]
    /\ rx_closed = [c \in Chans |-> FALSE]
    /\ sess = [s \in Sessions |-> [pc |-> "new", out |-> "none", shutdown |-> FALSE]]
    /\ res_rx = [s \in Sessions |-> "none"]
    /\ pushes = {}
    /\ updates = {}
    /\ done = [cmd |-> [type |-> "none"], had |-> FALSE]
    /\ since = [u \in Users |-> <<>>]
    /\ sends = 0
    /\ order = [s \in Sessions |-> [submitted |-> <<>>, taken |-> <<>>]]
    /\ sent_q = [c \in Chans |-> <<>>]
    /\ cap = ChanCap
    /\ ws = [s \in Sessions |-> WsNew]
    /\ ev = [s |-> NoChan, kind |-> "none", wrote |-> <<>>, n |-> 0]
    /\ relayed = [s \in Sessions |-> <<>>]

\* a pushed message: mid names the stored record it is (history), _id and
\* delivered are the fields of the value pushed
Item(mid, _id, delivered) == [mid |-> mid, _id |-> _id, delivered |-> delivered]

\* the replies of the SendMessage commands still queued: their res_tx is
\* dropped with the queue when run returns
Dropped(q) ==
    [s \in Sessions |->
        IF \E i \in 1..Len(q) : q[i].type = "SendMessage" /\ q[i].res_tx = s
        THEN "dropped" ELSE res_rx[s]]

\* a faulty insert: keeps the channel already mapped
RegisterIfAbsent(user_id, message_tx) ==
    IF connections[user_id] = NoChan
    THEN [connections EXCEPT ![user_id] = message_tx]
    ELSE connections

\* a faulty insert: maps every user to the channel
RegisterAll(user_id, message_tx) == [u \in Users |-> message_tx]

\* self.connections.insert(user_id, message_tx.clone())
Register(user_id, message_tx) == [connections EXCEPT ![user_id] = message_tx]

\* a faulty remove: clears the map
UnregisterAll(user_id) == [u \in Users |-> NoChan]

\* self.connections.remove(&user_id)
Unregister(user_id) == [connections EXCEPT ![user_id] = NoChan]

\* history: one more channel send
Push(p) == pushes' = pushes \cup {p}

\* history: the registry took a command of session s off the queue
Take(s, type) == order' = [order EXCEPT ![s].taken = Append(@, type)]

\* Command::Connect (lines 65-83, 113-116): register the channel, then query
\* the backlog; a failed find is logged and ends the handler
RegConnect ==
    /\ reg.pc = "recv"
    /\ cmd_rx # <<>>
    /\ Head(cmd_rx).type = "Connect"
    /\ LET cmd == Head(cmd_rx) IN
       /\ cmd_rx' = Tail(cmd_rx)
       /\ Take(cmd.message_tx, cmd.type)
       /\ done' = [cmd |-> cmd, had |-> ContainsKey(cmd.user_id)]
       /\ connections' = Register(cmd.user_id, cmd.message_tx)
       /\ since' = [since EXCEPT ![cmd.user_id] = Append(@, cmd.message_tx)]
       /\ \/ reg' = [RegIdle EXCEPT !.pc = "replay", !.user_id = cmd.user_id,
                                    !.message_tx = cmd.message_tx,
                                    !.cursor = Undelivered(cmd.user_id)]
          \/ reg' = RegIdle
    /\ UNCHANGED <<store, msg_q, rx_closed, sess, res_rx, pushes, updates, sends, sent_q, fvars>>

\* the cursor is exhausted: try_next gives Ok(None), the handler ends
ReplayEnd ==
    /\ reg.pc = "replay"
    /\ reg.cursor = <<>>
    /\ reg' = RegIdle
    /\ UNCHANGED <<connections, cmd_rx, store, msg_q, rx_closed, sess, res_rx,
                   pushes, updates, done, since, sends, order, sent_q, fvars>>

\* try_next gives Err: the ? operator returns it from run (lines 85-86); the
\* registry task ends, its queue and the reply senders in it are dropped
ReplayCursorErr ==
    /\ reg.pc = "replay"
    /\ reg' = [RegIdle EXCEPT !.pc = "stopped"]
    /\ cmd_rx' = <<>>
    /\ res_rx' = Dropped(cmd_rx)
    /\ UNCHANGED <<connections, store, msg_q, rx_closed, sess,
                   pushes, updates, done, since, sends, order, sent_q, fvars>>

\* a faulty replay loop: goes on to update_one whatever the send gave
ReplayNextAlwaysUpdate(m, ok) ==
    [reg EXCEPT !.pc = "update", !.mid = m, !.cursor = Tail(reg.cursor)]

\* the registry after message_tx.send(record) in the replay loop
\* (lines 89-92): Err continues with the next record, Ok goes on to update_one
ReplayNext(m, ok) ==
    IF ok THEN [reg EXCEPT !.pc = "update", !.mid = m, !.cursor = Tail(reg.cursor)]
    ELSE [reg EXCEPT !.cursor = Tail(reg.cursor)]

\* try_next gives a record and message_tx.send(record) is resolved
\* (lines 85-92)
ReplayPush ==
    /\ reg.pc = "replay"
    /\ reg.cursor # <<>>
    /\ LET m == Head(reg.cursor)
           c == reg.message_tx
       IN \/ /\ SendErr(c)
             /\ Push([mid |-> m, chan |-> c, ok |-> FALSE, replay |-> TRUE])
             /\ reg' = ReplayNext(m, FALSE)
             /\ UNCHANGED <<msg_q, sent_q>>
          \/ /\ SendOk(c)
             /\ Push([mid |-> m, chan |-> c, ok |-> TRUE, replay |-> TRUE])
             /\ msg_q' = [msg_q EXCEPT ![c] = Append(@, Item(m, m, FALSE))]
             /\ sent_q' = [sent_q EXCEPT ![c] = Append(@, Item(m, m, FALSE))]
             /\ reg' = ReplayNext(m, TRUE)
    /\ UNCHANGED <<connections, cmd_rx, store, rx_closed, sess, res_rx,
                   updates, done, since, sends, order, fvars>>

\* a faulty update: its filter matches every record, and it sets the flag
\* of the others to false
UpdatedOnly(mid, ok) ==
    IF ok THEN [k \in 1..Len(store) |-> [store[k] EXCEPT !.delivered = (k = mid)]]
    ELSE store

\* a faulty store: the flag is set although update_one failed
UpdatedAlways(mid, ok) == [store EXCEPT ![mid].delivered = TRUE]

\* the collection after update_one({_id: mid}, $set delivered: true)
Updated(mid, ok) == IF ok THEN [store EXCEPT ![mid].delivered = TRUE] ELSE store

\* update_one (lines 94-110); its failure is logged and the loop goes on
ReplayUpdate ==
    /\ reg.pc = "update"
    /\ \/ /\ store' = Updated(reg.mid, TRUE)
          /\ updates' = updates \cup {[mid |-> reg.mid, chan |-> reg.message_tx, ok |-> TRUE]}
       \/ /\ store' = Updated(reg.mid, FALSE)
          /\ updates' = updates \cup {[mid |-> reg.mid, chan |-> reg.message_tx, ok |-> FALSE]}
    /\ reg' = [reg EXCEPT !.pc = "replay", !.mid = NoId]
    /\ UNCHANGED <<connections, cmd_rx, msg_q, rx_closed, sess, res_rx,
                   pushes, done, since, sends, order, sent_q, fvars>>

\* Command::Disconnect (lines 118-121)
RegDisconnect ==
    /\ reg.pc = "recv"
    /\ cmd_rx # <<>>
    /\ Head(cmd_rx).type = "Disconnect"
    /\ LET cmd == Head(cmd_rx) IN
       /\ cmd_rx' = Tail(cmd_rx)
       /\ Take(cmd.from, cmd.type)
       /\ done' = [cmd |-> cmd, had |-> ContainsKey(cmd.user_id)]
       /\ connections' = Unregister(cmd.user_id)
       /\ since' = [since EXCEPT ![cmd.user_id] = <<>>]
    /\ UNCHANGED <<reg, store, msg_q, rx_closed, sess, res_rx, pushes, updates, sends, sent_q, fvars>>

\* a faulty record: delivered is always false at insert
NewMessageUndelivered(cmd, delivered) ==
    [content |-> cmd.content, delivered |-> FALSE,
     recipient_id |-> cmd.recipient_id, sender_id |-> cmd.sender_id]

\* the Message built for the insert (lines 135-143)
NewMessage(cmd, delivered) ==
    [content |-> cmd.content, delivered |-> delivered,
     recipient_id |-> cmd.recipient_id, sender_id |-> cmd.sender_id]

\* a faulty handler: pushes without looking at the result of insert_one
SendNextUnchecked(cmd, delivered, ok) ==
    IF delivered
    THEN [RegIdle EXCEPT !.pc = "push", !.user_id = cmd.recipient_id,
                         !.mid = Len(store) + 1, !.res_tx = cmd.res_tx]
    ELSE RegIdle

\* the registry after insert_one (lines 146-149, 160): a live push follows
\* only an insert that succeeded for a recipient found registered
SendNext(cmd, delivered, ok) ==
    IF ok /\ delivered
    THEN [RegIdle EXCEPT !.pc = "push", !.user_id = cmd.recipient_id,
                         !.mid = Len(store) + 1, !.res_tx = cmd.res_tx]
    ELSE RegIdle

\* the reply sent on res_tx (lines 158, 162)
Reply(ok) == IF ok THEN "ok" ELSE "fail"

\* a faulty reply: a failed push fails the send
PushReplyChecked(ok) == IF ok THEN "ok" ELSE "fail"

\* the reply after a live push (line 158): success, whatever the push gave
PushReply(ok) == "ok"

\* Command::SendMessage up to the insert (lines 122-146, 160-163): the
\* membership check, the record, insert_one; a failed insert is answered
\* with the failure string
RegSend ==
    /\ reg.pc = "recv"
    /\ cmd_rx # <<>>
    /\ Head(cmd_rx).type = "SendMessage"
    /\ LET cmd == Head(cmd_rx)
           delivered == ContainsKey(cmd.recipient_id)
       IN /\ cmd_rx' = Tail(cmd_rx)
          /\ Take(cmd.res_tx, cmd.type)
          /\ done' = [cmd |-> cmd, had |-> delivered]
          /\ \/ /\ store' = Append(store, NewMessage(cmd, delivered))
                /\ reg' = SendNext(cmd, delivered, TRUE)
                /\ res_rx' = IF reg'.pc = "push" THEN res_rx
                             ELSE [res_rx EXCEPT ![cmd.res_tx] = Reply(TRUE)]
             \/ /\ store' = store
                /\ reg' = SendNext(cmd, delivered, FALSE)
                /\ res_rx' = IF reg'.pc = "push" THEN res_rx
                             ELSE [res_rx EXCEPT ![cmd.res_tx] = Reply(FALSE)]
    /\ UNCHANGED <<connections, msg_q, rx_closed, sess, pushes, updates, since, sends, sent_q, fvars>>

\* a faulty lookup: the channel of the oldest Connect still counted for the
\* user
GetOldest(recipient_id) ==
    IF since[recipient_id] # <<>> THEN since[recipient_id][1]
    ELSE connections[recipient_id]

\* self.connections.get(&recipient_id) (line 150)
Get(recipient_id) == connections[recipient_id]

\* the live push and the reply (lines 149-158): tx is the channel mapped for
\* the recipient now; a send error is logged, the reply is the success string
LivePush ==
    /\ reg.pc = "push"
    /\ LET c == Get(reg.user_id) IN
       \/ /\ SendErr(c)
          /\ Push([mid |-> reg.mid, chan |-> c, ok |-> FALSE, replay |-> FALSE])
          /\ UNCHANGED <<msg_q, sent_q>>
          /\ res_rx' = [res_rx EXCEPT ![reg.res_tx] = PushReply(FALSE)]
       \/ /\ SendOk(c)
          /\ Push([mid |-> reg.mid, chan |-> c, ok |-> TRUE, replay |-> FALSE])
          /\ msg_q' = [msg_q EXCEPT ![c] = Append(@, Item(reg.mid, NoId, TRUE))]
          /\ sent_q' = [sent_q EXCEPT ![c] = Append(@, Item(reg.mid, NoId, TRUE))]
          /\ res_rx' = [res_rx EXCEPT ![reg.res_tx] = PushReply(TRUE)]
    /\ reg' = RegIdle
    /\ UNCHANGED <<connections, cmd_rx, store, rx_closed, sess, updates, done, since, sends, order, fvars>>

Registry ==
    \/ RegConnect \/ ReplayEnd \/ ReplayCursorErr \/ ReplayPush \/ ReplayUpdate
    \/ RegDisconnect \/ RegSend \/ LivePush

\* ------------------------------------------------------------- sessions
\* the commands a ChatServerHandle submits; cmd_tx.send fails once run has
\* returned (the receiver is dropped)
Stopped == reg.pc = "stopped"
ConnectCmd(s) == [type |-> "Connect", user_id |-> UserOf(s), message_tx |-> s]
\* from (history) names the session whose handle submitted the Disconnect;
\* the registry reads user_id only
DisconnectCmd(s) == [type |-> "Disconnect", user_id |-> UserOf(s), from |-> s]
SendCmd(s, r) == [type |-> "SendMessage", content |-> "text", sender_id |-> UserOf(s),
                  recipient_id |-> r, res_tx |-> s]

\* a faulty queue: the newest command is taken first
SubmitFirst(s, cmd) ==
    /\ cmd_rx' = <<cmd>> \o cmd_rx
    /\ order' = [order EXCEPT ![s].submitted = Append(@, cmd.type)]

\* self.cmd_tx.send(cmd) on the unbounded queue (lines 186, 194, 207)
Submit(s, cmd) ==
    /\ cmd_rx' = Append(cmd_rx, cmd)
    /\ order' = [order EXCEPT ![s].submitted = Append(@, cmd.type)]

\* the chat_to_ws task ends: msg_rx is dropped with whatever it still holds
Break(s) ==
    /\ sess' = [sess EXCEPT ![s].out = "stopped"]
    /\ rx_closed' = [rx_closed EXCEPT ![s] = TRUE]
    /\ msg_q' = [msg_q EXCEPT ![s] = <<>>]

\* the sessions of one user are numbered in the order they start
Earlier(s) == \A t \in Sessions : (t < s /\ UserOf(t) = UserOf(s)) => sess[t].pc # "new"

\* websocket_handler up to the spawn of chat_to_ws (lines 69-141)
WsStart(s) ==
    /\ sess[s].pc = "new"
    /\ Earlier(s)
    /\ IF Stopped
       THEN /\ sess' = [sess EXCEPT ![s].pc = "closed"]
            /\ rx_closed' = [rx_closed EXCEPT ![s] = TRUE]
            /\ UNCHANGED <<cmd_rx, order>>
       ELSE /\ sess' = [sess EXCEPT ![s].pc = "active", ![s].out = "run"]
            /\ rx_closed' = rx_closed
            /\ Submit(s, ConnectCmd(s))
    /\ UNCHANGED <<connections, reg, store, msg_q, res_rx, pushes, updates, done, since, sends, sent_q, fvars>>

\* the inbound loop is left (break or end of stream) and the shutdown signal
\* is sent (lines 144-220)
Leave(s) == sess' = [sess EXCEPT ![s].pc = "join", ![s].shutdown = TRUE]

\* a "message" text frame: send_message submits the command and waits for
\* the reply (lines 150-158, 198-218)
InMessage(s) ==
    /\ sess[s].pc = "active"
    /\ sends < MaxSends
    /\ \E r \in Users :
          IF Stopped
          THEN /\ UNCHANGED <<cmd_rx, sends, res_rx, order>>
               /\ \/ UNCHANGED sess
                  \/ Leave(s)
          ELSE /\ Submit(s, SendCmd(s, r))
               /\ sends' = sends + 1
               /\ sess' = [sess EXCEPT ![s].pc = "wait"]
               /\ res_rx' = res_rx
    /\ UNCHANGED <<connections, reg, store, msg_q, rx_closed, pushes, updates, done, since, sent_q, fvars>>

\* the reply arrives and is relayed with session.text (lines 159-170); a
\* failed write leaves the loop
InReply(s) ==
    /\ sess[s].pc = "wait"
    /\ res_rx[s] # "none"
    /\ res_rx' = [res_rx EXCEPT ![s] = "none"]
    /\ \/ sess' = [sess EXCEPT ![s].pc = "active"]
       \/ Leave(s)
    /\ UNCHANGED <<connections, cmd_rx, reg, store, msg_q, rx_closed,
                   pushes, updates, done, since, sends, order, sent_q, fvars>>

\* a close frame, a stream error or the end of the stream (lines 199-215)
InEnd(s) ==
    /\ sess[s].pc = "active"
    /\ Leave(s)
    /\ UNCHANGED <<connections, cmd_rx, reg, store, msg_q, rx_closed, res_rx,
                   pushes, updates, done, since, sends, order, sent_q, fvars>>

\* a faulty teardown: does not wait for the chat_to_ws task
JoinedUnawaited(s) == TRUE

\* let _ = chat_task.await (line 223) has returned
Joined(s) == sess[s].out = "stopped"

\* chat_task.await returns, then disconnect is submitted (lines 223-226)
WsClose(s) ==
    /\ sess[s].pc = "join"
    /\ Joined(s)
    /\ sess' = [sess EXCEPT ![s].pc = "closed"]
    /\ IF Stopped THEN UNCHANGED <<cmd_rx, order>> ELSE Submit(s, DisconnectCmd(s))
    /\ UNCHANGED <<connections, reg, store, msg_q, rx_closed, res_rx,
                   pushes, updates, done, since, sends, sent_q, fvars>>

\* chat_to_ws, the message branch (lines 102-114): take one message and
\* write it to the peer; a failed write breaks the loop
OutRelay(s) ==
    /\ sess[s].out = "run"
    /\ msg_q[s] # <<>>
    /\ \/ /\ msg_q' = [msg_q EXCEPT ![s] = Tail(@)]
          /\ UNCHANGED <<sess, rx_closed>>
       \/ Break(s)
    /\ UNCHANGED <<connections, cmd_rx, reg, store, res_rx, pushes, updates, done, since, sends, order, sent_q, fvars>>

\* chat_to_ws, the heartbeat branch when it breaks (lines 117-129): the
\* client timed out or the ping could not be written
OutTickBreak(s) ==
    /\ sess[s].out = "run"
    /\ Break(s)
    /\ UNCHANGED <<connections, cmd_rx, reg, store, res_rx, pushes, updates, done, since, sends, order, sent_q, fvars>>

\* chat_to_ws, the shutdown branch (lines 132-134)
OutShutdown(s) ==
    /\ sess[s].out = "run"
    /\ sess[s].shutdown
    /\ Break(s)
    /\ UNCHANGED <<connections, cmd_rx, reg, store, res_rx, pushes, updates, done, since, sends, order, sent_q, fvars>>

Session(s) ==
    \/ WsStart(s) \/ InMessage(s) \/ InReply(s) \/ InEnd(s) \/ WsClose(s)
    \/ OutRelay(s) \/ OutTickBreak(s) \/ OutShutdown(s)

Next == Registry \/ \E s \in Sessions : Session(s)

Spec == Init /\ [][Next]_vars

\* ---------------------------------------------- sessions, frame by frame
\* The same session loop with the frames of the peer, the heartbeat clock and
\* the frames written to the peer spelled out.
HEARTBEAT_INTERVAL == 5
CLIENT_TIMEOUT == 10

\* number of sessions that run frame by frame; session 2 is over when
\* they start (InitFramed)
NFramed == 1
Framed == {s \in Sessions \ {2} : s <= NFramed + 1}
\* a channel capacity that lets two messages wait in a channel
WideCap == 2

\* one message sent by "b" to "a" while "a" had no entry
Backlog == <<[content |-> "text", delivered |-> FALSE,
              recipient_id |-> "a", sender_id |-> "b"]>>

\* the state after session 2 connected, sent Backlog, closed, and the
\* registry took its Disconnect
InitFramed ==
    /\ connections = [u \in Users |-> NoChan]
    /\ cmd_rx = <<>>
    /\ reg = RegIdle
    /\ store = Backlog
    /\ msg_q = [c \in Chans |-> <<>>]
    /\ rx_closed = [c \in Chans |-> c = 2]
    /\ sess = [s \in Sessions |->
                 IF s = 2 THEN [pc |-> "closed", out |-> "stopped", shutdown |-> TRUE]
                 ELSE [pc |-> "new", out |-> "none", shutdown |-> FALSE]]
    /\ res_rx = [s \in Sessions |-> "none"]
    /\ pushes = {}
    /\ updates = {}
    /\ done = [cmd |-> DisconnectCmd(2), had |-> TRUE]
    /\ since = [u \in Users |-> <<>>]
    /\ sends = Len(Backlog)
    /\ order = [s \in Sessions |->
                  IF s = 2
                  THEN [submitted |-> <<"Connect", "SendMessage", "Disconnect">>,
                        taken |-> <<"Connect", "SendMessage", "Disconnect">>]
                  ELSE [submitted |-> <<>>, taken |-> <<>>]]
    /\ sent_q = [c \in Chans |-> <<>>]
    /\ cap = WideCap
    /\ ws = [s \in Sessions |-> WsNew]
    /\ ev = [s |-> NoChan, kind |-> "none", wrote |-> <<>>, n |-> 0]
    /\ relayed = [s \in Sessions |-> <<>>]

\* the frames a session writes: session.text(..), ping, pong, close
Text(message_type, message, mid) ==
    [op |-> "text", message_type |-> message_type, message |-> message, mid |-> mid]
Control(op) == [op |-> op, message_type |-> "", message |-> "", mid |-> NoId]
\* {"message_type":"error","message":..} (lines 166, 181)
ErrorEnvelope(message) == Text("error", message, NoId)
\* {"message_type":"pong"} (line 175)
PongEnvelope == Text("pong", "", NoId)
\* WebSocketMessage{message_type: "message", data: msg} (lines 104-107)
MessageEnvelope(msg) == Text("message", "", msg.mid)
\* a bare string, no envelope (line 160)
Plain(message) == Text("", message, NoId)

\* history: this step is a step of session s through the named branch
Step(s, kind, wrote) == ev' = [s |-> s, kind |-> kind, wrote |-> wrote, n |-> 1 - ev.n]

\* a write on the session gives Ok exactly while the websocket is open
Written(s, frame) == IF ws[s].open THEN <<frame>> ELSE <<>>

\* if session.text(..).await.is_err() { break; } in the inbound loop
InWrite(s, kind, frame) ==
    /\ Step(s, kind, Written(s, frame))
    /\ IF ws[s].open THEN sess' = [sess EXCEPT ![s].pc = "active"] ELSE Leave(s)

\* websocket_handler up to the spawn of chat_to_ws (lines 69-141)
Start(s) ==
    /\ sess[s].pc = "new"
    /\ Earlier(s)
    /\ IF Stopped
       THEN /\ sess' = [sess EXCEPT ![s].pc = "closed"]
            /\ rx_closed' = [rx_closed EXCEPT ![s] = TRUE]
            /\ ws' = [ws EXCEPT ![s].open = FALSE]
            /\ Step(s, "connect", <<Control("close")>>)
            /\ UNCHANGED <<cmd_rx, order>>
       ELSE /\ sess' = [sess EXCEPT ![s].pc = "active", ![s].out = "run"]
            /\ Step(s, "connect", <<>>)
            /\ Submit(s, ConnectCmd(s))
            /\ UNCHANGED <<rx_closed, ws>>
    /\ UNCHANGED <<connections, reg, store, msg_q, res_rx, pushes, updates, done,
                   since, sends, sent_q, cap, relayed>>

\* Text, "message" with a well-formed ChatMessage (lines 150-158, 164-169):
\* send_message submits the command and waits; with the queue closed it
\* returns Err at once and the error envelope is written
TextMessage(s) ==
    /\ sess[s].pc = "active"
    /\ sends < MaxSends
    /\ \E r \in Users :
          IF Stopped
          THEN /\ InWrite(s, "message", ErrorEnvelope("Failed to transmit send message command"))
               /\ UNCHANGED <<cmd_rx, sends, order>>
          ELSE /\ Submit(s, SendCmd(s, r))
               /\ sends' = sends + 1
               /\ sess' = [sess EXCEPT ![s].pc = "wait"]
               /\ Step(s, "message", <<>>)
    /\ UNCHANGED <<connections, reg, store, msg_q, rx_closed, res_rx, pushes, updates,
                   done, since, sent_q, cap, ws, relayed>>

\* what send_message returns and the frame written for it (lines 159-170,
\* chat_server.rs 158, 162, 215-217): any string the registry replied,
\* success or failure, comes back as Ok(response) and is written as it is; a
\* dropped reply sender comes back as Err and is written as an error envelope
Outcome(res) ==
    CASE res = "ok" -> Plain("Message sent successfully")
      [] res = "fail" -> Plain("Failed to send message")
      [] res = "dropped" -> ErrorEnvelope("Failed to receive response")

\* the reply of the pending send arrives and is written (lines 159-170)
TextReply(s) ==
    /\ sess[s].pc = "wait"
    /\ res_rx[s] # "none"
    /\ res_rx' = [res_rx EXCEPT ![s] = "none"]
    /\ InWrite(s, "reply", Outcome(res_rx[s]))
    /\ UNCHANGED <<connections, cmd_rx, reg, store, msg_q, rx_closed, pushes, updates,
                   done, since, sends, order, sent_q, cap, ws, relayed>>

\* a faulty handler: answers no frame
AnswerNothing(kind) == <<>>

\* the frames written for a text frame that submits no command (lines
\* 148-152, 173-186): kind is "ping", "unknown" (an envelope with any other
\* message_type, a missing one included: serde default), "bad_message" (type
\* "message", data that is no ChatMessage) or "unparseable" (no JSON object)
Answer(kind) ==
    CASE kind = "ping" -> <<PongEnvelope>>
      [] kind = "unknown" -> <<ErrorEnvelope("Unknown message type")>>
      [] OTHER -> <<>>

\* the inbound loop on a text frame that submits no command
NoCommand(s, kind) ==
    IF Answer(kind) = <<>>
    THEN Step(s, kind, <<>>) /\ UNCHANGED sess
    ELSE InWrite(s, kind, Answer(kind)[1])

\* Text, {"message_type":"ping"} (lines 173-178)
TextPing(s) ==
    /\ sess[s].pc = "active"
    /\ NoCommand(s, "ping")
    /\ UNCHANGED <<connections, cmd_rx, reg, store, msg_q, rx_closed, res_rx, pushes,
                   updates, done, since, sends, order, sent_q, cap, ws, relayed>>

\* Text, an envelope with any other message_type (lines 179-184)
TextUnknown(s) ==
    /\ sess[s].pc = "active"
    /\ NoCommand(s, "unknown")
    /\ UNCHANGED <<connections, cmd_rx, reg, store, msg_q, rx_closed, res_rx, pushes,
                   updates, done, since, sends, order, sent_q, cap, ws, relayed>>

\* Text, "message" whose data is no ChatMessage (line 152)
TextBadMessage(s) ==
    /\ sess[s].pc = "active"
    /\ NoCommand(s, "bad_message")
    /\ UNCHANGED <<connections, cmd_rx, reg, store, msg_q, rx_closed, res_rx, pushes,
                   updates, done, since, sends, order, sent_q, cap, ws, relayed>>

\* Text that is no WebSocketMessage (line 148)
TextUnparseable(s) ==
    /\ sess[s].pc = "active"
    /\ NoCommand(s, "unparseable")
    /\ UNCHANGED <<connections, cmd_rx, reg, store, msg_q, rx_closed, res_rx, pushes,
                   updates, done, since, sends, order, sent_q, cap, ws, relayed>>

\* *last_heartbeat = Instant::now() (lines 189-190, 196-197)
Seen(s) == [ws EXCEPT ![s].age = 0]

\* a protocol Ping (lines 188-194): refresh, answer with a Pong
FramePing(s) ==
    /\ sess[s].pc = "active"
    /\ ws' = Seen(s)
    /\ InWrite(s, "ping_frame", Control("pong"))
    /\ UNCHANGED <<connections, cmd_rx, reg, store, msg_q, rx_closed, res_rx, pushes,
                   updates, done, since, sends, order, sent_q, cap, relayed>>

\* a protocol Pong (lines 195-198): refresh
FramePong(s) ==
    /\ sess[s].pc = "active"
    /\ ws' = Seen(s)
    /\ Step(s, "pong_frame", <<>>)
    /\ UNCHANGED <<connections, cmd_rx, reg, store, msg_q, rx_closed, sess, res_rx,
                   pushes, updates, done, since, sends, order, sent_q, cap, relayed>>

\* a Close frame (lines 199-202): session.close(reason), break
FrameClose(s) ==
    /\ sess[s].pc = "active"
    /\ ws' = [ws EXCEPT ![s].open = FALSE]
    /\ Step(s, "close_frame", Written(s, Control("close")))
    /\ Leave(s)
    /\ UNCHANGED <<connections, cmd_rx, reg, store, msg_q, rx_closed, res_rx, pushes,
                   updates, done, since, sends, order, sent_q, cap, relayed>>

\* Binary, Continuation, Nop (lines 203-211)
FrameIgnored(s) ==
    /\ sess[s].pc = "active"
    /\ Step(s, "ignored", <<>>)
    /\ UNCHANGED <<connections, cmd_rx, reg, store, msg_q, rx_closed, sess, res_rx,
                   pushes, updates, done, since, sends, order, sent_q, cap, ws, relayed>>

\* msg_stream.next() gives None or Some(Err) (lines 144, 212-215)
StreamEnd(s) ==
    /\ sess[s].pc = "active"
    /\ Step(s, "end", <<>>)
    /\ Leave(s)
    /\ UNCHANGED <<connections, cmd_rx, reg, store, msg_q, rx_closed, res_rx, pushes,
                   updates, done, since, sends, order, sent_q, cap, ws, relayed>>

\* the peer or the transport goes away: from now on writes give Err
ConnLost(s) ==
    /\ sess[s].pc \in {"active", "wait", "join"}
    /\ ws[s].open
    /\ ws' = [ws EXCEPT ![s].open = FALSE]
    /\ UNCHANGED <<connections, cmd_rx, reg, store, msg_q, rx_closed, sess, res_rx,
                   pushes, updates, done, since, sends, order, sent_q, cap, ev, relayed>>

\* a faulty receive: takes the newest message of the channel
RecvNewest(q) == [msg |-> q[Len(q)], rest |-> SubSeq(q, 1, Len(q) - 1)]

\* msg_rx.recv() (line 102): the oldest message of the channel
Recv(q) == [msg |-> Head(q), rest |-> Tail(q)]

\* chat_to_ws, the message branch (lines 102-114)
Relay(s) ==
    /\ sess[s].out = "run"
    /\ msg_q[s] # <<>>
    /\ LET r == Recv(msg_q[s]) IN
       IF ws[s].open
       THEN /\ msg_q' = [msg_q EXCEPT ![s] = r.rest]
            /\ relayed' = [relayed EXCEPT ![s] = Append(@, r.msg)]
            /\ Step(s, "relay", <<MessageEnvelope(r.msg)>>)
            /\ UNCHANGED <<sess, rx_closed>>
       ELSE /\ Break(s)
            /\ Step(s, "relay", <<>>)
            /\ UNCHANGED relayed
    /\ UNCHANGED <<connections, cmd_rx, reg, store, res_rx, pushes, updates, done,
                   since, sends, order, sent_q, cap, ws>>

\* a faulty check: times out at the limit already
TimedOutAtLimit(age) == age >= CLIENT_TIMEOUT

\* Instant::now().duration_since(last_heartbeat) > CLIENT_TIMEOUT (line 118)
TimedOut(age) == age > CLIENT_TIMEOUT

\* chat_to_ws, the heartbeat branch (lines 117-129): on a timeout close and
\* break; otherwise ping, and break if the ping cannot be written
Tick(s) ==
    /\ sess[s].out = "run"
    /\ ws[s].to_tick = 0
    /\ IF TimedOut(ws[s].age)
       THEN /\ ws' = [ws EXCEPT ![s].open = FALSE]
            /\ Step(s, "timeout", Written(s, Control("close")))
            /\ Break(s)
       ELSE IF ws[s].open
       THEN /\ ws' = [ws EXCEPT ![s].to_tick = HEARTBEAT_INTERVAL]
            /\ Step(s, "heartbeat", <<Control("ping")>>)
            /\ UNCHANGED <<sess, rx_closed, msg_q>>
       ELSE /\ Step(s, "heartbeat", <<>>)
            /\ Break(s)
            /\ UNCHANGED ws
    /\ UNCHANGED <<connections, cmd_rx, reg, store, res_rx, pushes, updates, done,
                   since, sends, order, sent_q, cap, relayed>>

\* a second passes before the next tick is due
Advance(s) ==
    /\ sess[s].out = "run"
    /\ ws[s].to_tick > 0
    /\ ws' = [ws EXCEPT ![s].to_tick = @ - 1,
                        ![s].age = IF @ > CLIENT_TIMEOUT THEN @ ELSE @ + 1]
    /\ UNCHANGED <<connections, cmd_rx, reg, store, msg_q, rx_closed, sess, res_rx,
                   pushes, updates, done, since, sends, order, sent_q, cap, ev, relayed>>

\* a faulty select: the shutdown branch is never ready
SignalledNever(s) == FALSE

\* _ = &mut shutdown_rx is ready (line 132): shutdown_tx.send(()) was called
Signalled(s) == sess[s].shutdown

\* chat_to_ws, the shutdown branch (lines 132-134)
Shutdown(s) ==
    /\ sess[s].out = "run"
    /\ Signalled(s)
    /\ Break(s)
    /\ Step(s, "shutdown", <<>>)
    /\ UNCHANGED <<connections, cmd_rx, reg, store, res_rx, pushes, updates, done,
                   since, sends, order, sent_q, cap, ws, relayed>>

\* chat_task.await returns, then disconnect is submitted (lines 223-226)
Teardown(s) ==
    /\ sess[s].pc = "join"
    /\ Joined(s)
    /\ sess' = [sess EXCEPT ![s].pc = "closed"]
    /\ IF Stopped THEN UNCHANGED <<cmd_rx, order>> ELSE Submit(s, DisconnectCmd(s))
    /\ Step(s, "disconnect", <<>>)
    /\ UNCHANGED <<connections, reg, store, msg_q, rx_closed, res_rx, pushes, updates,
                   done, since, sends, sent_q, cap, ws, relayed>>

\* what the peer and the transport do
Peer(s) ==
    \/ TextMessage(s) \/ TextPing(s) \/ TextUnknown(s) \/ TextBadMessage(s)
    \/ TextUnparseable(s) \/ FramePing(s) \/ FramePong(s) \/ FrameClose(s)
    \/ FrameIgnored(s) \/ StreamEnd(s) \/ ConnLost(s)

\* what the two tasks of the session do by themselves
Own(s) ==
    \/ Start(s) \/ TextReply(s) \/ Relay(s) \/ Tick(s) \/ Advance(s)
    \/ Shutdown(s) \/ Teardown(s)

NextFramed == Registry \/ \E s \in Framed : Peer(s) \/ Own(s)

FramedSpec == InitFramed /\ [][NextFramed]_vars

\* select! polls its ready branches in random order, so a shutdown signal
\* that stays ready is taken; the session task resumes once the awaited
\* chat_task has finished
FairFramedSpec ==
    /\ FramedSpec
    /\ \A s \in Framed : WF_vars(Shutdown(s)) /\ WF_vars(Teardown(s))

\* --------------------------------------------------------------- claims
Range(q) == {q[i] : i \in 1..Len(q)}
Ids == 1..Len(store)

\* this step is the registry taking a command of the given type off the queue
Took(type) ==
    /\ reg.pc = "recv"
    /\ cmd_rx # <<>>
    /\ Head(cmd_rx).type = type
    /\ cmd_rx' = Tail(cmd_rx)

\* this step is the registry resolving the send of the replay loop
ReplayPushed == reg.pc = "replay" /\ reg.cursor # <<>> /\ pushes' # pushes

\* this step is the registry resolving the live send
LivePushed == reg.pc = "push" /\ reg' # reg

\* the records of user u that a replay on channel c still owes: not delivered,
\* not waiting in the cursor, no send error and no update error on c
Owed(u, c) ==
    {k \in Ids :
        /\ store[k].recipient_id = u
        /\ ~store[k].delivered
        /\ k \notin Range(reg.cursor)
        /\ ~(reg.pc = "update" /\ reg.mid = k)
        /\ [mid |-> k, chan |-> c, ok |-> FALSE, replay |-> TRUE] \notin pushes
        /\ [mid |-> k, chan |-> c, ok |-> FALSE] \notin updates}

C1Step ==
    /\ (Took("SendMessage") /\ ~ContainsKey(Head(cmd_rx).recipient_id)
            /\ Len(store') = Len(store) + 1)
       => /\ store'[Len(store')].delivered = FALSE
          /\ store'[Len(store')].recipient_id = Head(cmd_rx).recipient_id
          /\ msg_q' = msg_q
          /\ pushes' = pushes
          /\ reg'.pc = "recv"
    /\ (Took("Connect") /\ reg'.pc = "replay")
       => /\ reg'.message_tx = connections'[Head(cmd_rx).user_id]
          /\ reg'.message_tx = Head(cmd_rx).message_tx
          /\ \A k \in Ids :
                (store[k].recipient_id = Head(cmd_rx).user_id /\ ~store[k].delivered)
                => k \in Range(reg'.cursor)
    /\ ReplayPushed
       => /\ reg.message_tx = connections[reg.user_id]
          /\ SendOk(reg.message_tx)
             => msg_q'[reg.message_tx] =
                   Append(msg_q[reg.message_tx], Item(Head(reg.cursor), Head(reg.cursor), FALSE))
    /\ \A k \in Ids :
          (~store[k].delivered /\ store'[k].delivered)
          => /\ updates' # updates
             /\ [mid |-> k, chan |-> connections[store[k].recipient_id],
                 ok |-> TRUE, replay |-> TRUE] \in pushes
    /\ (reg'.pc \in {"replay", "update"}) => Owed(reg.user_id, reg.message_tx)' = {}

\* C1: a message sent while its recipient has no map entry is stored with
\* delivered=false and nothing is pushed; a later Connect of the recipient
\* whose query succeeds takes it into the replay, pushes it onto the channel
\* that Connect registered, and its flag turns true only after that push
\* succeeded (and does turn true unless that push or update fails).
C1_OfflineThenOnline == [][C1Step]_vars

C1_Witness ==
    \E k \in Ids :
        /\ store[k].delivered
        /\ \E p \in pushes : p.mid = k /\ p.replay /\ p.ok
        /\ \E u \in updates : u.mid = k /\ u.ok

C2Step ==
    /\ (Took("SendMessage") /\ ContainsKey(Head(cmd_rx).recipient_id)
            /\ Len(store') = Len(store) + 1)
       => /\ store'[Len(store')].delivered = TRUE
          /\ reg'.pc = "push"
          /\ reg'.mid = Len(store')
          /\ reg'.user_id = Head(cmd_rx).recipient_id
          /\ updates' = updates
    /\ LivePushed
       => LET c == connections[reg.user_id] IN
          /\ store[reg.mid].recipient_id = reg.user_id
          /\ c # NoChan
          /\ pushes' = pushes \cup {[mid |-> reg.mid, chan |-> c,
                                     ok |-> ~rx_closed[c], replay |-> FALSE]}
          /\ ~rx_closed[c] => msg_q'[c] = Append(msg_q[c], Item(reg.mid, NoId, TRUE))
          /\ updates' = updates
          /\ store' = store
    /\ \A p \in pushes' : ~p.replay => \A u \in updates' : u.mid # p.mid

\* C2: a message sent while its recipient has a map entry is inserted with
\* delivered=true, the push goes to the channel mapped for the recipient, and
\* no update_one is issued for it.
C2_OnlineImmediate == [][C2Step]_vars

C2_Witness ==
    \E p \in pushes : ~p.replay /\ p.ok /\ store[p.mid].delivered /\ reg.pc = "recv"

C3Step ==
    /\ Took("SendMessage")
       => /\ (res_rx'[Head(cmd_rx).res_tx] = "fail") <=> (store' = store)
          /\ store' = store => (msg_q' = msg_q /\ pushes' = pushes /\ reg'.pc = "recv")
          /\ store' # store => store' = Append(store, store'[Len(store')])
    /\ reg'.pc = "push" => reg'.mid \in 1..Len(store')
    /\ \A p \in pushes' : p.mid \in 1..Len(store')

\* C3: a failed insert is answered with the failure string, pushes nothing
\* and leaves no record; every push is of a record already in the store.
C3_PersistBeforeDeliver == [][C3Step]_vars

C3_Witness ==
    \E s \in Sessions : res_rx[s] = "fail" /\ done.cmd.type = "SendMessage" /\ done.cmd.res_tx = s

\* C4: a store failure during backlog replay leaves the registry loop
\* running (it goes on to the later commands).
C4_RegistrySurvivesReplayFailure == reg.pc # "stopped"

\* C5 as stated: between commands, a stored message has delivered=true
\* exactly when a push of it has succeeded.
C5_DeliveredIffPushed ==
    reg.pc = "recv" =>
        \A k \in Ids : store[k].delivered <=> \E p \in pushes : p.mid = k /\ p.ok

\* C5 amended: a stored message has delivered=true exactly when it was
\* inserted for a recipient found registered (a live push of it is due or was
\* attempted, whatever its result) or an update issued after a successful
\* replay push of it succeeded.
C5_DeliveredIffLiveOrUpdated ==
    /\ \A k \in Ids :
          store[k].delivered <=>
             \/ \E p \in pushes : p.mid = k /\ ~p.replay
             \/ reg.pc = "push" /\ reg.mid = k
             \/ \E u \in updates : u.mid = k /\ u.ok
    /\ \A u \in updates :
          [mid |-> u.mid, chan |-> u.chan, ok |-> TRUE, replay |-> TRUE] \in pushes

C5_Witness ==
    \E k \in Ids :
        /\ ~store[k].delivered
        /\ reg.pc = "recv"
        /\ \E p \in pushes : p.mid = k /\ p.replay /\ p.ok
        /\ \E u \in updates : u.mid = k /\ ~u.ok

\* C6: no persisted message is lost: one that was never pushed with success
\* is still in the backlog (delivered=false) or its live push is still due.
C6_NoPersistedMessageLost ==
    \A k \in Ids :
        \/ \E p \in pushes : p.mid = k /\ p.ok
        \/ ~store[k].delivered
        \/ reg.pc = "push" /\ reg.mid = k

C7Step ==
    /\ (ReplayPushed /\ rx_closed[reg.message_tx])
       => /\ updates' = updates
          /\ store' = store
          /\ msg_q' = msg_q
          /\ reg'.pc = "replay"
          /\ reg'.cursor = Tail(reg.cursor)
    /\ \A p \in pushes' :
          (p.replay /\ ~p.ok)
          => /\ \A u \in updates' : ~(u.mid = p.mid /\ u.chan = p.chan)
             /\ store'[p.mid].delivered
                => \E u \in updates' : u.mid = p.mid /\ u.ok /\ u.chan > p.chan
    /\ (Took("Connect") /\ reg'.pc = "replay")
       => \A p \in pushes :
             (p.replay /\ ~p.ok /\ ~store[p.mid].delivered
                /\ store[p.mid].recipient_id = Head(cmd_rx).user_id)
             => p.mid \in Range(reg'.cursor)

\* C7: when a replay push fails, no update is issued for the record, the
\* replay goes on with the next record, the record stays delivered=false, and
\* the replay of the user's next Connect has it again.
C7_ReplayPushFailure == [][C7Step]_vars

C7_Witness ==
    \E p, q \in pushes :
        p.mid = q.mid /\ p.replay /\ ~p.ok /\ q.replay /\ q.chan > p.chan

C8Step ==
    /\ (LivePushed /\ rx_closed[connections[reg.user_id]])
       => /\ res_rx'[reg.res_tx] = "ok"
          /\ reg'.pc = "recv"
          /\ msg_q' = msg_q
          /\ store' = store
          /\ store[reg.mid].delivered
    /\ \A p \in pushes' : (~p.replay /\ ~p.ok) => store'[p.mid].delivered

\* C8: a live push that fails still answers the send with success, the
\* registry goes on, and the record keeps delivered=true.
C8_LivePushFailure == [][C8Step]_vars

C8_Witness ==
    \E p \in pushes :
        /\ ~p.replay /\ ~p.ok /\ store[p.mid].delivered
        /\ done.cmd.type = "SendMessage"
        /\ res_rx[done.cmd.res_tx] = "ok"

Last(q) == q[Len(q)]

C9Step ==
    /\ \A u \in Users : Len(since'[u]) >= 2 => connections'[u] = Last(since'[u])
    /\ \A p \in pushes' \ pushes :
          LET u == store[p.mid].recipient_id IN
          Len(since[u]) >= 2
          => /\ p.chan = Last(since[u])
             /\ \A i \in 1..(Len(since[u]) - 1) : msg_q'[since[u][i]] = msg_q[since[u][i]]

\* C9: after two Connects for a user with no Disconnect for that user taken
\* since, the map holds the second channel for the user and every push of a
\* message for that user goes to the second channel, none to the first.
C9_LastConnectWins == [][C9Step]_vars

C9_Witness ==
    \E u \in Users :
        /\ Len(since[u]) >= 2
        /\ \E p \in pushes :
              ~p.replay /\ p.ok /\ store[p.mid].recipient_id = u /\ p.chan = Last(since[u])

C10Step ==
    Took("Disconnect")
    => LET u == Head(cmd_rx).user_id IN
       /\ reg'.pc = "recv"
       /\ ~ContainsKey(u) => connections' = connections
       /\ (done.cmd.type = "Disconnect" /\ done.cmd.user_id = u) => connections' = connections
       /\ connections'[u] = NoChan
       /\ \A v \in Users \ {u} : connections'[v] = connections[v]

\* C10: a Disconnect for a user with no entry leaves the map as it is and
\* the registry running; a second Disconnect in a row changes nothing.
C10_DisconnectIdempotent == [][C10Step]_vars

C10_Witness ==
    /\ done.cmd.type = "Disconnect"
    /\ ~done.had
    /\ \E v \in Users : connections[v] # NoChan

\* this step appends a command of the given type to the queue
Submitted(type) ==
    /\ Len(cmd_rx') = Len(cmd_rx) + 1
    /\ cmd_rx'[Len(cmd_rx')].type = type

C11Step ==
    /\ Submitted("Disconnect")
       => LET s == cmd_rx'[Len(cmd_rx')].from IN
          /\ sess[s].pc = "join"
          /\ sess[s].shutdown
          /\ sess[s].out = "stopped"
          /\ rx_closed[s]
          /\ sess'[s].pc = "closed"
    /\ \A s \in Sessions :
          (sess[s].pc \in {"active", "wait", "join"} /\ sess'[s].pc = "closed")
          => sess[s].pc = "join" /\ sess[s].shutdown /\ sess[s].out = "stopped"
    /\ Took("Disconnect")
       => LET s == Head(cmd_rx).from IN
          sess[s].pc = "closed" /\ sess[s].out = "stopped"

\* C11: a session submits its Disconnect only after its inbound loop has
\* ended, the shutdown signal is raised and its chat_to_ws task has finished;
\* the registry takes a session's Disconnect only when both duties of that
\* session are over.
C11_CloseOrdering == [][C11Step]_vars

C11_Witness ==
    /\ done.cmd.type = "Disconnect"
    /\ done.had
    /\ sess[done.cmd.from].pc = "closed"
    /\ connections[done.cmd.user_id] = NoChan

\* this step is a step of session s through the named branch
StepOf(s, kind) == ev'.n # ev.n /\ ev'.s = s /\ ev'.kind = kind

\* the latest step of a session was that of s through the named branch
After(s, kind) == ev.s = s /\ ev.kind = kind

\* C12: after chat_to_ws has timed the peer out, the session goes on to
\* Closed without another frame or event of the peer: while its inbound loop
\* waits for the next frame, some step of the session's own tasks can happen.
C12_HeartbeatTimeoutCloses ==
    \A s \in Framed :
        (After(s, "timeout") /\ sess[s].pc = "active") => ENABLED Own(s)

\* this step wrote one structured error envelope and the inbound loop of s
\* goes on
AnsweredWithError(s) ==
    /\ Len(ev'.wrote) = 1
    /\ ev'.wrote[1].op = "text"
    /\ ev'.wrote[1].message_type = "error"
    /\ sess'[s].pc = "active"
    /\ ws'[s].open

C13Step ==
    \A s \in Framed :
        /\ (StepOf(s, "reply") /\ res_rx[s] \in {"fail", "dropped"} /\ ws[s].open)
           => AnsweredWithError(s)
        /\ (StepOf(s, "message") /\ Stopped /\ ws[s].open)
           => AnsweredWithError(s)

\* C13: on an open websocket, a failed insert, a closed command queue and a
\* dropped reply sender met while handling a "message" frame are each
\* answered with one {"message_type":"error",..} envelope, and the inbound
\* loop goes on.
C13_ErrorsAnsweredWithEnvelope == [][C13Step]_vars

\* everything but the history of steps
state == <<connections, cmd_rx, reg, store, msg_q, rx_closed, sess, res_rx, pushes,
           updates, done, since, sends, order, sent_q, cap, ws, relayed>>

C14Step ==
    \A s \in Framed :
        /\ (StepOf(s, "unknown") /\ ws[s].open)
           => /\ ev'.wrote = <<ErrorEnvelope("Unknown message type")>>
              /\ sess[s].pc = "active"
              /\ state' = state
        /\ StepOf(s, "unparseable")
           => /\ ev'.wrote = <<>>
              /\ sess[s].pc = "active"
              /\ state' = state

\* C14: on an open websocket an envelope with an unrecognized message_type
\* is answered with exactly one "Unknown message type" error envelope, an
\* unparseable text with nothing; either way the session stays Active, no
\* command is submitted and nothing else changes, so the next frame is
\* handled as if the frame had not come.
C14_UnknownFramesNonFatal == [][C14Step]_vars

C14_Witness ==
    /\ After(1, "unknown")
    /\ ev.wrote = <<ErrorEnvelope("Unknown message type")>>
    /\ sess[1].pc = "active"
    /\ ws[1].open
    /\ ENABLED TextMessage(1)
    /\ ENABLED (TextUnparseable(1) /\ ev'.wrote = <<>>)

\* C15: the registry's channel send completes whatever the state of the
\* recipient's channel: whenever a replay send or a live send is due, the
\* registry can take that step by itself, without a step of any session.
C15_PushNeverBlocks ==
    /\ (reg.pc = "replay" /\ reg.cursor # <<>>) => ENABLED ReplayPush
    /\ reg.pc = "push" => ENABLED LivePush

IsPrefix(p, q) == Len(p) <= Len(q) /\ SubSeq(q, 1, Len(p)) = p

\* the positions of the commands of the given type in q
At(q, type) == {i \in 1..Len(q) : q[i] = type}

\* C16: the registry takes the commands of a session in the order the
\* session submitted them: what it has taken is an initial part of what was
\* submitted; the Connect comes first, so it is taken before any SendMessage
\* of the session, and the Disconnect comes last, so it is taken after every
\* SendMessage of the session.
C16_SubmissionOrder ==
    \A s \in Sessions :
        LET sub == order[s].submitted
            got == order[s].taken
        IN /\ IsPrefix(got, sub)
           /\ At(sub, "Connect") \subseteq {1}
           /\ At(sub, "Disconnect") \subseteq {Len(sub)}
           /\ At(got, "SendMessage") # {} => 1 \in At(got, "Connect")
           /\ At(got, "Disconnect") # {}
              => /\ At(got, "SendMessage") = At(sub, "SendMessage")
                 /\ \A i \in At(got, "SendMessage") : \A j \in At(got, "Disconnect") : i < j

C16_Witness ==
    \E s, t \in Sessions :
        /\ s # t
        /\ order[s].taken = <<"Connect", "SendMessage", "Disconnect">>
        /\ order[t].taken = <<"Connect", "SendMessage">>
        /\ order[t].submitted = <<"Connect", "SendMessage", "Disconnect">>
        /\ done.cmd.type = "Disconnect"
        /\ done.cmd.from = s

\* a record the replay pushed: read from the store, with its _id
FromReplay(msg) == msg._id # NoId

\* C17: what chat_to_ws has written to the peer is an initial part, in the
\* same order, of what the registry sent on the session's channel, and on a
\* channel every record sent by the replay of its Connect comes before every
\* record sent by a SendMessage.
C17_PerRecipientOrder ==
    \A c \in Chans :
        /\ IsPrefix(relayed[c], sent_q[c])
        /\ \A i, j \in 1..Len(sent_q[c]) :
              (FromReplay(sent_q[c][j]) /\ ~FromReplay(sent_q[c][i])) => j < i

C17_Witness ==
    /\ Len(relayed[1]) = 2
    /\ FromReplay(relayed[1][1])
    /\ ~FromReplay(relayed[1][2])
    /\ After(1, "relay")
    /\ ev.wrote = <<MessageEnvelope(relayed[1][2])>>

\* the branches of the inbound loop for text frames
TextKinds == {"message", "reply", "ping", "unknown", "bad_message", "unparseable"}

C18Step ==
    \A s \in Framed :
        /\ (StepOf(s, "timeout") \/ StepOf(s, "heartbeat"))
           => /\ ws[s].to_tick = 0
              /\ sess[s].out = "run"
              /\ StepOf(s, "timeout") <=> ws[s].age > CLIENT_TIMEOUT
        /\ StepOf(s, "timeout")
           => /\ ~ws'[s].open
              /\ sess'[s].out = "stopped"
              /\ ws[s].open => ev'.wrote = <<Control("close")>>
        /\ (StepOf(s, "heartbeat") /\ ws[s].open)
           => /\ ev'.wrote = <<Control("ping")>>
              /\ sess'[s].out = "run"
              /\ ws'[s].open
              /\ ws'[s].to_tick = HEARTBEAT_INTERVAL
        /\ (StepOf(s, "ping_frame") \/ StepOf(s, "pong_frame")) => ws'[s].age = 0
        /\ ws'[s].age < ws[s].age => (StepOf(s, "ping_frame") \/ StepOf(s, "pong_frame"))
        /\ (\E kind \in TextKinds : StepOf(s, kind)) => ws'[s].age = ws[s].age

\* C18: at a tick chat_to_ws takes the timeout branch (close, stop) exactly
\* when more than CLIENT_TIMEOUT has passed since last_heartbeat; otherwise,
\* on an open websocket, it writes a Ping and keeps running. last_heartbeat
\* is refreshed by protocol Ping and Pong frames and by nothing else; no
\* text frame, the application "ping" included, changes it.
C18_HeartbeatTick == [][C18Step]_vars

C18_Witness ==
    /\ After(1, "timeout")
    /\ ev.wrote = <<Control("close")>>
    /\ ws[1].age > CLIENT_TIMEOUT
    /\ sess[1].out = "stopped"
    /\ ~ws[1].open

C20Step ==
    /\ Len(store') >= Len(store)
    /\ \A k \in Ids :
          /\ store[k].delivered => store'[k].delivered
          /\ [store'[k] EXCEPT !.delivered = FALSE] = [store[k] EXCEPT !.delivered = FALSE]

\* C20: no step removes a stored message or changes anything of it but its
\* delivered flag, and the flag never goes from true to false.
C20_DeliveredMonotonic == [][C20Step]_vars

C20_Witness ==
    /\ Len(store) = 2
    /\ \E u \in updates : u.ok /\ store[u.mid].delivered
    /\ \E p \in pushes : ~p.replay /\ store[p.mid].delivered
    /\ \E u \in updates : ~u.ok

\* the teardown of s has run: chat_to_ws is over and disconnect was called
\* (the command is on the queue unless run had returned by then)
TornDown(s) ==
    /\ sess[s].pc = "closed"
    /\ sess[s].out = "stopped"
    /\ rx_closed[s]
    /\ order[s].submitted[Len(order[s].submitted)] = "Disconnect" \/ Stopped

\* C19: once the inbound loop of a session has ended and the shutdown signal
\* is sent, chat_to_ws stops and the session calls disconnect.
C19_Cancellation ==
    \A s \in Framed : (sess[s].pc = "join" /\ sess[s].shutdown) ~> TornDown(s)

C19_Witness ==
    /\ After(1, "disconnect")
    /\ TornDown(1)
    /\ Len(relayed[1]) = 1
    /\ Len(sent_q[1]) = 2
    /\ ~Stopped

\* the entries of the map other than u's are as they were
OthersKept(u) == \A v \in Users \ {u} : connections'[v] = connections[v]

C21Step ==
    /\ connections' # connections => (Took("Connect") \/ Took("Disconnect"))
    /\ Took("Connect")
       => /\ OthersKept(Head(cmd_rx).user_id)
          /\ connections'[Head(cmd_rx).user_id] = Head(cmd_rx).message_tx
    /\ Took("Disconnect")
       => /\ OthersKept(Head(cmd_rx).user_id)
          /\ connections'[Head(cmd_rx).user_id] = NoChan
    /\ Took("SendMessage") => connections' = connections
    /\ reg.pc # "recv" => connections' = connections
    /\ (sess' # sess \/ Len(cmd_rx') > Len(cmd_rx)) => connections' = connections

\* C21: the connection map changes only in the step in which the registry
\* takes a Connect or a Disconnect off the queue; Connect{u} and Disconnect{u}
\* change only u's entry; SendMessage (insert ok or failed, the push
\* included), the replay steps and every step of a session leave the map as
\* it was.
C21_MapFrame == [][C21Step]_vars

C21_Witness ==
    /\ \A u \in Users : connections[u] # NoChan
    /\ done.cmd.type = "SendMessage"
    /\ \E p \in pushes : ~p.replay
    /\ \E s \in Sessions : res_rx[s] = "fail"
    /\ \E s \in Sessions : sess[s].pc = "join" /\ connections[UserOf(s)] = s

\* the registry has taken the Connect of session s (the first command a
\* session submits)
ConnectTaken(s) == order[s].taken # <<>>

\* session s is past its Connect and its inbound loop is running
Active(s) == sess[s].pc \in {"active", "wait"}

\* C22: when a user connected with session s1 and then with session s2, the
\* Connect of s2 being the last one taken for the user, then as long as s2 is
\* Active the map holds the channel of s2 for the user, whatever s1 does
\* (its close and its Disconnect included).
C22_NewerSessionKept ==
    \A s1, s2 \in Sessions :
        (/\ s1 < s2
         /\ UserOf(s1) = UserOf(s2)
         /\ ConnectTaken(s1)
         /\ ConnectTaken(s2)
         /\ \A t \in Sessions : (t > s2 /\ UserOf(t) = UserOf(s2)) => ~ConnectTaken(t)
         /\ Active(s2))
        => connections[UserOf(s2)] = s2

C23Step ==
    /\ Took("SendMessage")
       => LET cmd == Head(cmd_rx)
              had == ContainsKey(cmd.recipient_id)
          IN /\ connections' = connections
             /\ pushes' = pushes
             /\ msg_q' = msg_q
             /\ store' # store => store'[Len(store')].delivered = had
             /\ reg'.pc = "push" <=> (store' # store /\ had)
             /\ reg'.pc \in {"push", "recv"}
             /\ reg'.pc = "push"
                => reg'.user_id = cmd.recipient_id /\ reg'.mid = Len(store')
    /\ reg.pc = "push"
       => /\ ContainsKey(reg.user_id)
          /\ store[reg.mid].delivered
          /\ store[reg.mid].recipient_id = reg.user_id
          /\ connections' = connections
          /\ store' = store
          /\ IsPrefix(cmd_rx, cmd_rx')
          /\ reg' # reg
             => /\ reg'.pc = "recv"
                /\ \E ok \in BOOLEAN :
                      pushes' \ pushes = {[mid |-> reg.mid, chan |-> connections[reg.user_id],
                                           ok |-> ok, replay |-> FALSE]}
    /\ \A p \in pushes' \ pushes : ~p.replay => reg.pc = "push"

\* C23: in one SendMessage no other command comes between the membership
\* check and the push: the record is inserted with delivered equal to the
\* membership found; a push is due exactly when the insert succeeded and the
\* recipient was found registered; until that push is made the registry takes
\* no command and the map and the store stay as they were, so the recipient
\* is still registered, with the same channel, and that channel is the one
\* pushed to; no live push is made otherwise.
C23_CheckAndPushAtomic == [][C23Step]_vars

C23_Witness ==
    /\ reg.pc = "recv"
    /\ done.cmd.type = "SendMessage"
    /\ \E p \in pushes : ~p.replay /\ p.mid = Len(store)
    /\ cmd_rx # <<>>
    /\ Head(cmd_rx).type \in {"Connect", "Disconnect"}
    /\ Head(cmd_rx).user_id = done.cmd.recipient_id

\* the update_one issued after push p failed
UpdateFailed(p) == [mid |-> p.mid, chan |-> p.chan, ok |-> FALSE] \in updates'

C24Step ==
    /\ ReplayPushed
       => LET m == Head(reg.cursor) IN
          /\ done.cmd.type = "Connect"
          /\ reg.user_id = done.cmd.user_id
          /\ reg.message_tx = done.cmd.message_tx
          /\ store[m].recipient_id = reg.user_id
          /\ ~store[m].delivered
          /\ \A p \in pushes : p.mid = m => p.replay
          /\ \E ok \in BOOLEAN :
                pushes' \ pushes = {[mid |-> m, chan |-> reg.message_tx,
                                     ok |-> ok, replay |-> TRUE]}
    /\ \A p \in pushes' \ pushes : p.replay => ReplayPushed
    /\ \A p, q \in pushes' :
          (p.mid = q.mid /\ p # q)
          => /\ p.replay /\ q.replay
             /\ p.chan # q.chan
             /\ p.chan < q.chan => (~p.ok \/ UpdateFailed(p))
    /\ reg.pc = "push" => \A p \in pushes : p.mid # reg.mid

\* C24: a record is pushed a second time only by a later replay, and only
\* when the earlier push of it was a replay push that failed or one whose
\* delivered-update failed; a record whose live push is due or made (inserted
\* with delivered=true) is pushed by no replay; a replay push is of a record
\* whose recipient is the user of the Connect being handled and whose flag is
\* false, onto the channel of that Connect.
C24_NoDuplicateWithoutFailure == [][C24Step]_vars

C24_Witness ==
    \E p, q \in pushes :
        /\ p.mid = q.mid
        /\ p.chan < q.chan
        /\ p.ok
        /\ q.ok
        /\ [mid |-> p.mid, chan |-> p.chan, ok |-> FALSE] \in updates

====
